---- MODULE Spec2Model ----
(***************************************************************************)
(* Model of app.py, the Reddit crypto sentiment analyzer: the collector    *)
(* fetch_reddit_data, the scorer analyze_sentiments, the price adapter     *)
(* get_price_df, the aligner merge_df and the "Run Analysis" block that    *)
(* composes them.                                                          *)
(*                                                                         *)
(* Data frames are sequences of records (one record per row).  A pandas   *)
(* Timestamp is a pair <<seconds, nanoseconds>> since the epoch, ordered   *)
(* lexicographically.  A polarity is an integer number of hundredths, a    *)
(* closing price is its decimal text, and the missing value is NaN.        *)
(***************************************************************************)
EXTENDS Integers, Sequences, FiniteSets

VARIABLES
    crypto_name,  \* sidebar: selected entry of CRYPTO_TICKERS
    num_posts,    \* sidebar: slider value
    subs,         \* sidebar: multiselect, the selected subreddits in order
    pc,           \* position of the script run
    requests,     \* fetch_reddit_data: the requests issued so far, in order
    responses,    \* what the upstream answered to each request
    results,      \* fetch_reddit_data: the local list `results`
    data,         \* run block: `data`
    sent_df,      \* run block: `sent_df` (merge_df's first argument)
    downloaded,   \* get_price_df: the frame yf.download returned
    price_df,     \* run block: `price_df` (merge_df's second argument)
    price_sorted, \* merge_df: the local `price_df` after line 82
    merged,       \* run block: `merged` (merge_df's result)
    shown,        \* the Streamlit elements the run has emitted, in order
    raised        \* the call whose exception ended the run, "" when none did

vars == <<crypto_name, num_posts, subs, pc, requests, responses, results,
          data, sent_df, downloaded, price_df, price_sorted, merged, shown,
          raised>>

-----------------------------------------------------------------------------
(* Bounds *)

\* most items one run collects (caps the size of the upstream's responses)
MaxItems == 2
\* most rows yf.download returns in a run
MaxDownload == 2
\* longest sentiment frame handed to merge_df on its own
MaxSent == 2
\* longest price frame handed to merge_df on its own
MaxPrice == 3

-----------------------------------------------------------------------------
(* Configuration and the sidebar *)

NaN == "NaN"

CRYPTO_TICKERS == [n \in {"Bitcoin (BTC)", "Ethereum (ETH)"} |->
                      IF n = "Bitcoin (BTC)" THEN "BTC" ELSE "ETH"]

\* the multiselect's options
SubredditOptions == <<"CryptoCurrency", "CryptoMarkets", "Bitcoin", "Ethereum">>

\* the options a selection is drawn from
Subreddits == {SubredditOptions[1], SubredditOptions[3]}

\* the slider's values, scaled down (50, 100 -> 1, 2)
PostLimits == {1, 2}

Range(s) == {s[i] : i \in DOMAIN s}

SeqsUpTo(S, n) == UNION {[1..m -> S] : m \in 0..n}

\* a multiselect value: distinct options, in the order selected
Selections == {s \in SeqsUpTo(Subreddits, Cardinality(Subreddits)) :
                  \A i, j \in DOMAIN s : i # j => s[i] # s[j]}

Kinds == <<"submission", "comment">>

-----------------------------------------------------------------------------
(* pandas *)

ToDatetime(secs) == <<secs, 0>>

DateLE(a, b) == a[1] < b[1] \/ (a[1] = b[1] /\ a[2] <= b[2])

IsSorted(df) == \A i \in 1..(Len(df) - 1) : DateLE(df[i].date, df[i + 1].date)

InsertAt(s, i, x) == SubSeq(s, 1, i - 1) \o <<x>> \o SubSeq(s, i, Len(s))

\* the frames that hold s's rows and x, sorted, when s is sorted
SortedInserts(x, s) ==
    {InsertAt(s, i, x) : i \in {j \in 1..(Len(s) + 1) :
        /\ \A m \in 1..(j - 1) : DateLE(s[m].date, x.date)
        /\ \A m \in j..Len(s) : DateLE(x.date, s[m].date)}}

RECURSIVE SortedPerms(_)
SortedPerms(df) ==
    IF df = <<>> THEN {<<>>}
    ELSE UNION {SortedInserts(Head(df), t) : t \in SortedPerms(Tail(df))}

\* faulty variant: the frame is returned as it came
UnsortedValues(df) == {df}

\* DataFrame.sort_values("date"): the default kind is quicksort, which is not
\* stable (numpy's introsort swaps equal keys once a frame has more than 16
\* rows, even in a frame that is sorted already), so rows of equal date come
\* out in any order
SortValues(df) == SortedPerms(df)

-----------------------------------------------------------------------------
(* The upstream sources *)

Get(item, key, default) == IF key \in DOMAIN item THEN item[key] ELSE default

\* items Pushshift may put in a response, per kind; fields may be missing
UpstreamItems(kind) ==
    IF kind = "submission"
    THEN {[title |-> "good", selftext |-> "", created_utc |-> 2],
          [selftext |-> "bad"]}
    ELSE {[body |-> "bad", created_utc |-> 1],
          [created_utc |-> 2]}

\* rows yf.download may return: the index column comes first
UpstreamRows ==
    {[Datetime |-> <<1, 0>>, Close |-> "100.0", Volume |-> 7],
     [Datetime |-> <<1, 0>>, Close |-> "105.0", Volume |-> 7],
     [Datetime |-> <<1, 500000000>>, Close |-> NaN, Volume |-> 0]}

\* TextBlob(txt).sentiment.polarity, in hundredths
Polarity(txt) ==
    CASE txt = "good " -> 70
      [] txt = " bad"  -> -70
      [] txt = "bad"   -> -70
      [] OTHER         -> 0

-----------------------------------------------------------------------------
(* fetch_reddit_data *)

NumRequests == Len(Kinds) * Len(subs)

\* faulty variant: every request goes to the first subreddit
RequestParamsFirstSub(i) ==
    [kind      |-> Kinds[((i - 1) \div Len(subs)) + 1],
     subreddit |-> subs[1],
     q         |-> CRYPTO_TICKERS[crypto_name],
     size      |-> num_posts]

\* the i-th request of the nested loops: kinds outer, subreddits inner
RequestParams(i) ==
    [kind      |-> Kinds[((i - 1) \div Len(subs)) + 1],
     subreddit |-> subs[((i - 1) % Len(subs)) + 1],
     q         |-> CRYPTO_TICKERS[crypto_name],
     size      |-> num_posts]

\* faulty variant: the response is cut to one item less
RawItemsShort(kind, items) ==
    [i \in 1..(Len(items) - 1) |->
        [text |-> IF kind = "submission"
                  THEN Get(items[i], "title", "") \o " " \o Get(items[i], "selftext", "")
                  ELSE Get(items[i], "body", ""),
         created_utc |-> Get(items[i], "created_utc", 0)]]

\* lines 44-50: one result per item of the response
RawItems(kind, items) ==
    [i \in 1..Len(items) |->
        [text |-> IF kind = "submission"
                  THEN Get(items[i], "title", "") \o " " \o Get(items[i], "selftext", "")
                  ELSE Get(items[i], "body", ""),
         created_utc |-> Get(items[i], "created_utc", 0)]]

runLocals == <<data, sent_df, downloaded, price_df, price_sorted, merged>>
sidebar == <<crypto_name, num_posts, subs>>

\* the "Run Analysis" button: the run starts and calls fetch_reddit_data
RunAnalysis ==
    /\ pc = "idle"
    /\ pc' = "fetching"
    /\ shown' = <<"info: Fetching Reddit">>
    /\ requests' = <<>>
    /\ responses' = <<>>
    /\ results' = <<>>
    /\ UNCHANGED <<sidebar, runLocals, raised>>

\* one pass of the inner loop whose request succeeds
RequestOk ==
    /\ pc = "fetching"
    /\ Len(requests) < NumRequests
    /\ LET req == RequestParams(Len(requests) + 1) IN
       \E items \in SeqsUpTo(UpstreamItems(req.kind), MaxItems - Len(results)) :
          /\ requests' = Append(requests, req)
          /\ responses' = Append(responses, [ok |-> TRUE, items |-> items])
          /\ results' = results \o RawItems(req.kind, items)
    /\ UNCHANGED <<sidebar, pc, runLocals, shown, raised>>

\* faulty variant: the failure is swallowed and the loop goes on
RequestFailContinue ==
    /\ pc = "fetching"
    /\ Len(requests) < NumRequests
    /\ requests' = Append(requests, RequestParams(Len(requests) + 1))
    /\ responses' = Append(responses, [ok |-> FALSE, items |-> <<>>])
    /\ raised' = "fetch_reddit_data"
    /\ UNCHANGED <<sidebar, pc, results, runLocals, shown>>

\* one pass whose request fails: requests.get or raise_for_status raises, and
\* nothing catches it before Streamlit ends the run
RequestFail ==
    /\ pc = "fetching"
    /\ Len(requests) < NumRequests
    /\ requests' = Append(requests, RequestParams(Len(requests) + 1))
    /\ responses' = Append(responses, [ok |-> FALSE, items |-> <<>>])
    /\ raised' = "fetch_reddit_data"
    /\ pc' = "failed"
    /\ shown' = Append(shown, "exception")
    /\ UNCHANGED <<sidebar, results, runLocals>>

\* line 51 and the assignment of line 102
FetchReturn ==
    /\ pc = "fetching"
    /\ Len(requests) = NumRequests
    /\ data' = results
    /\ pc' = "fetched"
    /\ UNCHANGED <<sidebar, requests, responses, results, sent_df, downloaded,
                   price_df, price_sorted, merged, shown, raised>>

-----------------------------------------------------------------------------
(* analyze_sentiments *)

\* faulty variant: items with empty text are skipped
RECURSIVE ScoredRowsNonEmpty(_)
ScoredRowsNonEmpty(entries) ==
    IF entries = <<>> THEN <<>>
    ELSE (IF Head(entries).text = "" THEN <<>>
          ELSE <<[date     |-> ToDatetime(Head(entries).created_utc),
                  polarity |-> Polarity(Head(entries).text)]>>)
         \o ScoredRowsNonEmpty(Tail(entries))

\* lines 58-65: one row per entry
ScoredRows(entries) ==
    [i \in 1..Len(entries) |->
        [date     |-> ToDatetime(entries[i].created_utc),
         polarity |-> Polarity(entries[i].text)]]

\* the frames analyze_sentiments may return for a non-empty `entries`
analyze_sentiments(entries) == SortValues(ScoredRows(entries))

-----------------------------------------------------------------------------
(* get_price_df *)

\* lines 73-75 before the sort: the first column renamed to date, and the
\* columns date and Close kept
PriceRows(frame) ==
    [i \in 1..Len(frame) |-> [date |-> frame[i].Datetime, Close |-> frame[i].Close]]

get_price_df(frame) == SortValues(PriceRows(frame))

-----------------------------------------------------------------------------
(* merge_df *)

\* the cursor into `right` moves on while the next row's date is <= d
RECURSIVE Advance(_, _, _)
Advance(right, pos, d) ==
    IF pos < Len(right) /\ DateLE(right[pos + 1].date, d)
    THEN Advance(right, pos + 1, d)
    ELSE pos

RECURSIVE AsofScan(_, _, _, _)
AsofScan(left, right, i, pos) ==
    IF i > Len(left) THEN <<>>
    ELSE LET p == Advance(right, pos, left[i].date) IN
         <<[date     |-> left[i].date,
            polarity |-> left[i].polarity,
            Close    |-> IF p = 0 THEN NaN ELSE right[p].Close]>>
         \o AsofScan(left, right, i + 1, p)

\* faulty variant: a price of the very same date does not qualify
RECURSIVE AdvanceStrict(_, _, _)
AdvanceStrict(right, pos, d) ==
    IF pos < Len(right) /\ DateLE(right[pos + 1].date, d) /\ right[pos + 1].date # d
    THEN AdvanceStrict(right, pos + 1, d)
    ELSE pos

MergeAsofNoExact(left, right) ==
    [i \in 1..Len(left) |->
        LET p == AdvanceStrict(right, 0, left[i].date) IN
        [date     |-> left[i].date,
         polarity |-> left[i].polarity,
         Close    |-> IF p = 0 THEN NaN ELSE right[p].Close]]

\* faulty variant: of the prices of one date, the first is taken
MergeAsofFirst(left, right) ==
    [i \in 1..Len(left) |->
        LET p == Advance(right, 0, left[i].date)
            f == IF p = 0 THEN 0
                 ELSE CHOOSE j \in 1..p :
                        /\ right[j].date = right[p].date
                        /\ \A m \in 1..(j - 1) : right[m].date # right[p].date
        IN
        [date     |-> left[i].date,
         polarity |-> left[i].polarity,
         Close    |-> IF f = 0 THEN NaN ELSE right[f].Close]]

\* faulty variant: a row without a price is dropped, as an inner join would
RECURSIVE AsofScanInner(_, _, _)
AsofScanInner(left, right, i) ==
    IF i > Len(left) THEN <<>>
    ELSE LET p == Advance(right, 0, left[i].date) IN
         (IF p = 0 THEN <<>>
          ELSE <<[date     |-> left[i].date,
                  polarity |-> left[i].polarity,
                  Close    |-> right[p].Close]>>)
         \o AsofScanInner(left, right, i + 1)

MergeAsofInner(left, right) == AsofScanInner(left, right, 1)

\* pd.merge_asof(left, right, on="date", direction="backward")
MergeAsof(left, right) == AsofScan(left, right, 1, 0)

\* lines 81-84: what merge_df may return, with its local price_df of line 82
merge_df(sent, price) ==
    {[merged |-> MergeAsof(ss, ps), price_sorted |-> ps] :
        ss \in SortValues(sent), ps \in SortValues(price)}

-----------------------------------------------------------------------------
(* The run block *)

ResultOutputs == <<"metric: Avg Sentiment", "metric: Latest Close", "line_chart",
                   "dataframe", "download_button">>

\* lines 104-106
NoData ==
    /\ pc = "fetched"
    /\ data = <<>>
    /\ shown' = Append(shown, "warning: No data returned from Pushshift.")
    /\ pc' = "nodata"
    /\ UNCHANGED <<sidebar, requests, responses, results, runLocals, raised>>

\* faulty variant: the scorer runs whatever the collector returned
AnalyzeAlways ==
    /\ pc = "fetched"
    /\ sent_df' \in analyze_sentiments(data)
    /\ shown' = shown \o <<"info: Analyzing sentiment", "info: Fetching price">>
    /\ pc' = "pricing"
    /\ UNCHANGED <<sidebar, requests, responses, results, data, downloaded,
                   price_df, price_sorted, merged, raised>>

\* lines 108-112, up to the call of yf.download
Analyze ==
    /\ pc = "fetched"
    /\ data # <<>>
    /\ sent_df' \in analyze_sentiments(data)
    /\ shown' = shown \o <<"info: Analyzing sentiment", "info: Fetching price">>
    /\ pc' = "pricing"
    /\ UNCHANGED <<sidebar, requests, responses, results, data, downloaded,
                   price_df, price_sorted, merged, raised>>

\* yf.download returns: lines 73-75 and 114-137
PriceOk ==
    /\ pc = "pricing"
    /\ \E frame \in SeqsUpTo(UpstreamRows, MaxDownload) :
          /\ downloaded' = frame
          /\ price_df' \in get_price_df(frame)
    /\ \E m \in merge_df(sent_df, price_df') :
          /\ price_sorted' = m.price_sorted
          /\ merged' = m.merged
    /\ shown' = shown \o <<"info: Merging", "success: Done!">> \o ResultOutputs
    /\ pc' = "done"
    /\ UNCHANGED <<sidebar, requests, responses, results, data, sent_df, raised>>

\* faulty variant: the failure is swallowed and the run goes on with no prices
PriceFailSwallowed ==
    /\ pc = "pricing"
    /\ raised' = "get_price_df"
    /\ \E m \in merge_df(sent_df, <<>>) :
          /\ price_sorted' = m.price_sorted
          /\ merged' = m.merged
    /\ shown' = shown \o <<"info: Merging", "success: Done!">> \o ResultOutputs
    /\ pc' = "done"
    /\ UNCHANGED <<sidebar, requests, responses, results, data, sent_df,
                   downloaded, price_df>>

\* get_price_df raises: nothing catches it before Streamlit ends the run
PriceFail ==
    /\ pc = "pricing"
    /\ raised' = "get_price_df"
    /\ pc' = "failed"
    /\ shown' = Append(shown, "exception")
    /\ UNCHANGED <<sidebar, requests, responses, results, runLocals>>

Cleared ==
    /\ requests = <<>> /\ responses = <<>> /\ results = <<>>
    /\ data = <<>> /\ sent_df = <<>> /\ downloaded = <<>>
    /\ price_df = <<>> /\ price_sorted = <<>> /\ merged = <<>>
    /\ shown = <<>>
    /\ raised = ""

\* the script before the button is pressed: every run starts from nothing
Init ==
    /\ crypto_name \in DOMAIN CRYPTO_TICKERS
    /\ num_posts \in PostLimits
    /\ subs \in Selections
    /\ pc = "idle"
    /\ Cleared

\* a widget is touched after a run has ended: the script starts over
Rerun ==
    /\ pc \in {"nodata", "failed", "done"}
    /\ crypto_name' \in DOMAIN CRYPTO_TICKERS
    /\ num_posts' \in PostLimits
    /\ subs' \in Selections
    /\ pc' = "idle"
    /\ requests' = <<>> /\ responses' = <<>> /\ results' = <<>>
    /\ data' = <<>> /\ sent_df' = <<>> /\ downloaded' = <<>>
    /\ price_df' = <<>> /\ price_sorted' = <<>> /\ merged' = <<>>
    /\ shown' = <<>>
    /\ raised' = ""

Next ==
    \/ RunAnalysis
    \/ RequestOk
    \/ RequestFail
    \/ FetchReturn
    \/ NoData
    \/ Analyze
    \/ PriceOk
    \/ PriceFail
    \/ Rerun

Spec == Init /\ [][Next]_vars

-----------------------------------------------------------------------------
(* merge_df on its own, for every pair of sorted frames *)

SentimentRows ==
    UNION {UNION {Range(ScoredRows(RawItems(kind, <<it>>))) : it \in UpstreamItems(kind)} :
              kind \in Range(Kinds)}

PriceRowSet == UNION {Range(PriceRows(<<r>>)) : r \in UpstreamRows}

MergeInit ==
    /\ crypto_name = "Bitcoin (BTC)"
    /\ num_posts = 1
    /\ subs = <<>>
    /\ pc = "merge_df"
    /\ requests = <<>> /\ responses = <<>> /\ results = <<>>
    /\ data = <<>> /\ downloaded = <<>>
    /\ price_sorted = <<>> /\ merged = <<>> /\ shown = <<>>
    /\ raised = ""
    /\ sent_df \in {s \in SeqsUpTo(SentimentRows, MaxSent) : IsSorted(s)}
    /\ price_df \in {p \in SeqsUpTo(PriceRowSet, MaxPrice) : IsSorted(p)}

\* merge_df(sent_df, price_df)
MergeDfCall ==
    /\ pc = "merge_df"
    /\ \E m \in merge_df(sent_df, price_df) :
          /\ price_sorted' = m.price_sorted
          /\ merged' = m.merged
    /\ pc' = "merge_df_returned"
    /\ UNCHANGED <<sidebar, requests, responses, results, data, sent_df,
                   downloaded, price_df, shown, raised>>

MergeNext == MergeDfCall

MergeSpec == MergeInit /\ [][MergeNext]_vars

-----------------------------------------------------------------------------
(* Properties *)

Count(x, s) == Cardinality({i \in DOMAIN s : s[i] = x})

IsPermutation(a, b) ==
    /\ Len(a) = Len(b)
    /\ \A x \in Range(a) \cup Range(b) : Count(x, a) = Count(x, b)

\* the rows of price_df whose date is <= d
Qualifying(d) == {j \in DOMAIN price_df : DateLE(price_df[j].date, d)}

\* those of them with the greatest date
Latest(d) ==
    {j \in Qualifying(d) :
        \A m \in Qualifying(d) : DateLE(price_df[m].date, price_df[j].date)}

Max(S) == CHOOSE x \in S : \A y \in S : y <= x

\* C1 as claimed: each merged row carries the close of a price row of the
\* greatest date <= its own, and its close is null exactly when no price row
\* has a date <= its own.
C1_JoinAsClaimed ==
    pc = "merge_df_returned" =>
        \A i \in DOMAIN merged :
            /\ (merged[i].Close = NaN) <=> (Qualifying(merged[i].date) = {})
            /\ Qualifying(merged[i].date) # {} =>
                 \E j \in Latest(merged[i].date) : merged[i].Close = price_df[j].Close

\* C1, amended: each merged row's close is null when no price row has a date
\* <= its own, and is otherwise the close of a price row of the greatest such
\* date, a date equal to the row's own included; that close may itself be null.
C1_JoinCorrectness ==
    pc = "merge_df_returned" =>
        \A i \in DOMAIN merged :
            IF Qualifying(merged[i].date) = {}
            THEN merged[i].Close = NaN
            ELSE \E j \in Latest(merged[i].date) : merged[i].Close = price_df[j].Close

C1_Witness ==
    /\ pc = "merge_df_returned"
    /\ \E i \in DOMAIN merged : Qualifying(merged[i].date) = {} /\ merged[i].Close = NaN
    /\ \E i \in DOMAIN merged : \E j \in Latest(merged[i].date) :
          /\ price_df[j].date = merged[i].date
          /\ Qualifying(merged[i].date) # DOMAIN price_df
          /\ merged[i].Close = price_df[j].Close
          /\ merged[i].Close # NaN

\* C2: merge_df returns exactly one row per sentiment row, carrying that row's
\* date and polarity, whether or not a price matches; no rows for no sentiments.
C2_Cardinality ==
    pc = "merge_df_returned" =>
        /\ Len(merged) = Len(sent_df)
        /\ IsPermutation([i \in DOMAIN merged |->
                             [date |-> merged[i].date, polarity |-> merged[i].polarity]],
                         sent_df)

C2_Witness ==
    /\ pc = "merge_df_returned"
    /\ Len(sent_df) >= 2
    /\ Len(merged) = Len(sent_df)
    /\ \E i \in DOMAIN merged : merged[i].Close = NaN /\ Qualifying(merged[i].date) = {}
    /\ \E i \in DOMAIN merged : merged[i].Close # NaN

\* C3: a failed request is the last one issued (no later request, no retry),
\* it ends the run at once, and nothing collected so far reaches the caller.
C3_FetchAllOrNothing ==
    \A i \in DOMAIN responses :
        ~responses[i].ok =>
            /\ i = Len(responses)
            /\ Len(requests) = i
            /\ \A m, n \in DOMAIN requests : m # n => requests[m] # requests[n]
            /\ pc = "failed"
            /\ raised = "fetch_reddit_data"
            /\ data = <<>>
            /\ sent_df = <<>>
            /\ merged = <<>>

C3_Witness ==
    /\ pc = "failed"
    /\ raised = "fetch_reddit_data"
    /\ results # <<>>
    /\ Len(requests) >= 2
    /\ Len(requests) < NumRequests
    /\ data = <<>>

C5_EmptyResultTerminal ==
    /\ pc = "nodata" =>
          /\ data = <<>>
          /\ raised = ""
          /\ \A i \in DOMAIN responses : responses[i].ok
          /\ shown = <<"info: Fetching Reddit", "warning: No data returned from Pushshift.">>
          /\ sent_df = <<>> /\ downloaded = <<>> /\ price_df = <<>> /\ merged = <<>>
    /\ "warning: No data returned from Pushshift." \in Range(shown) => pc = "nodata"
    /\ (pc \in {"pricing", "done"} \/ "info: Analyzing sentiment" \in Range(shown)) =>
          data # <<>>
    /\ (pc \in {"fetched", "nodata", "pricing", "done"} /\ data = <<>>) =>
          pc \in {"fetched", "nodata"}

C5_Witness ==
    /\ pc = "nodata"
    /\ Len(requests) >= 2

\* the last row of price_sorted that has the date of price_df's row j
LastOfDate(j) ==
    Max({m \in DOMAIN price_sorted : price_sorted[m].date = price_df[j].date})

\* C6 as claimed: of several price rows of the greatest date <= a sentiment
\* row's date, the close of the one latest in merge_df's input is attached.
C6_LatestWinsAsClaimed ==
    pc = "merge_df_returned" =>
        \A i \in DOMAIN merged :
            Cardinality(Latest(merged[i].date)) >= 2 =>
                merged[i].Close = price_df[Max(Latest(merged[i].date))].Close

\* C6, amended: the close attached is that of the last of those rows in the
\* order merge_df's own sort of the prices leaves them in, hence of one of the
\* equal-date rows of the input, whichever that sort puts last.
C6_LatestWins ==
    pc = "merge_df_returned" =>
        \A i \in DOMAIN merged :
            Cardinality(Latest(merged[i].date)) >= 2 =>
                /\ IsPermutation(price_sorted, price_df)
                /\ \A j \in Latest(merged[i].date) :
                      merged[i].Close = price_sorted[LastOfDate(j)].Close
                /\ \E j \in Latest(merged[i].date) :
                      merged[i].Close = price_df[j].Close

C6_Witness ==
    /\ pc = "merge_df_returned"
    /\ \E i \in DOMAIN merged :
          /\ Cardinality(Latest(merged[i].date)) >= 2
          /\ \E j, m \in Latest(merged[i].date) : price_df[j].Close # price_df[m].Close
          /\ merged[i].Close = price_df[Max(Latest(merged[i].date))].Close

\* C7: the scorer's frame, the price adapter's frame and the merged rows are
\* each non-decreasing by date, in whatever order the items and rows arrived.
C7_SortInvariant ==
    /\ IsSorted(sent_df)
    /\ IsSorted(price_df)
    /\ IsSorted(merged)

C7_Witness ==
    /\ pc = "done"
    /\ \E i \in 1..(Len(data) - 1) : data[i].created_utc > data[i + 1].created_utc
    /\ \E i \in 1..(Len(downloaded) - 1) :
          ~DateLE(downloaded[i].Datetime, downloaded[i + 1].Datetime)
    /\ Len(merged) >= 2
    /\ Len(price_df) >= 2

\* C8: the scorer's frame holds exactly one row per collected item, its date
\* the item's timestamp and its polarity that of the item's text; items of
\* empty text or of defaulted timestamp 0 are kept.
C8_ScorerKeepsEveryItem ==
    pc \in {"pricing", "done"} =>
        /\ Len(sent_df) = Len(data)
        /\ IsPermutation(sent_df,
                         [i \in DOMAIN data |->
                             [date     |-> <<data[i].created_utc, 0>>,
                              polarity |-> Polarity(data[i].text)]])

C8_Witness ==
    /\ pc = "pricing"
    /\ \E i \in DOMAIN data : data[i].text = ""
    /\ \E i \in DOMAIN data : data[i].created_utc = 0
    /\ Len(sent_df) = Len(data)

RECURSIVE Concatenated(_)
Concatenated(n) ==
    IF n = 0 THEN <<>>
    ELSE Concatenated(n - 1) \o RawItems(requests[n].kind, responses[n].items)

\* C9: when every request succeeds, exactly one request goes out per
\* (kind, subreddit) pair, with the ticker as q and the limit as size, and the
\* list returned is the responses' items, one result each, in request order.
C9_RequestPlan ==
    pc = "fetched" =>
        /\ Len(requests) = 2 * Len(subs)
        /\ \A kind \in {"submission", "comment"}, sub \in Range(subs) :
              Cardinality({i \in DOMAIN requests :
                  requests[i].kind = kind /\ requests[i].subreddit = sub}) = 1
        /\ \A i \in DOMAIN requests :
              /\ requests[i].q = CRYPTO_TICKERS[crypto_name]
              /\ requests[i].size = num_posts
        /\ Len(responses) = Len(requests)
        /\ data = Concatenated(Len(requests))
        /\ \A i \in DOMAIN responses :
              Len(RawItems(requests[i].kind, responses[i].items)) = Len(responses[i].items)

C9_Witness ==
    /\ pc = "fetched"
    /\ Len(subs) = 2
    /\ Cardinality({i \in DOMAIN responses : responses[i].items # <<>>}) >= 2
    /\ data = Concatenated(Len(requests))

RECURSIVE ItemsReceived(_)
ItemsReceived(n) == IF n = 0 THEN 0 ELSE ItemsReceived(n - 1) + Len(responses[n].items)

\* C10 as claimed: the list returned holds at most `limit` items of each
\* request, and at most 2 * |channels| * limit in all, whatever the responses hold.
C10_BoundedAsClaimed ==
    pc = "fetched" =>
        /\ \A i \in DOMAIN responses :
              Len(RawItems(requests[i].kind, responses[i].items)) <= num_posts
        /\ Len(data) <= 2 * Len(subs) * num_posts

\* C10, amended: the list returned holds as many items as the responses do,
\* so at most 2 * |channels| * limit when no response holds more than the
\* size its request asked for; the collector itself cuts nothing.
C10_BoundedByResponses ==
    pc = "fetched" =>
        /\ Len(data) = ItemsReceived(Len(responses))
        /\ (\A i \in DOMAIN responses : Len(responses[i].items) <= requests[i].size) =>
              Len(data) <= 2 * Len(subs) * num_posts

C10_Witness ==
    /\ pc = "fetched"
    /\ \E i \in DOMAIN responses : Len(responses[i].items) > requests[i].size
    /\ Len(data) = ItemsReceived(Len(responses))

====
